---- MODULE Spec2Model ----
(***************************************************************************)
(* ClassifierModel (src/src/pipeline/core/model/classifier.py): a          *)
(* LightningModule binding a backbone, a loss, one optimizer/scheduler     *)
(* pair and the per-phase logging of metrics, sample images and test       *)
(* figures.                                                                *)
(*                                                                         *)
(* Abstractions.  An image is one pixel value; a batch x is a sequence of  *)
(* images and y the sequence of their labels.  Logits are small integers,  *)
(* softmax is computed in thousandths.  Values built by libraries outside  *)
(* this file (the cross-entropy loss, the image grid, the ROC curve) are   *)
(* kept as the arguments they are computed from.  What a call hands to     *)
(* the logger is kept in logged / images / figures, the calls of the       *)
(* classifier in fwd, the return value in returned; each holds the         *)
(* output of the call in last_call.                                        *)
(***************************************************************************)
EXTENDS Integers, Sequences, FiniteSets, TLC

\* ---- bounds -------------------------------------------------------------
NumClasses == 2
MaxBatch == 2
MaxTestSamples == 3
MaxSetups == 2
MaxEpoch == 1

\* ---- values -------------------------------------------------------------
\* Python's None
None == [kind |-> "None"]

\* the denormalisation callable a caller may hand to the constructor
DenormFn == [kind |-> "callable", name |-> "denorm"]

\* a Python list or tuple held in an attribute that may also hold None
List(items) == [kind |-> "list", items |-> items]

\* a tensor held in an attribute that may also hold None
Tensor(data) == [kind |-> "tensor", data |-> data]

\* no exception left the call
NoException == "NoException"

Classes == 0 .. (NumClasses - 1)

\* the labelled images a data loader reads in order (normalised pixel, label):
\* image 0 of class 0, image 1 of class 1, and an image 1 labelled 0
Dataset == <<<<0, 0>>, <<1, 1>>, <<1, 0>>>>

\* model_config.backbone, fixed at construction
Backbone == "backbone"

\* constants.Phase members
TRAINING == "TRAINING"
VALIDATION == "VALIDATION"
TESTING == "TESTING"

\* constants.Criterion members
LOSS == "LOSS"
ACCURACY == "ACCURACY"

\* phase(criterion): the metric name a phase makes of a criterion
PhaseCall(phase, criterion) == [phase |-> phase, criterion |-> criterion]

\* f"sample_images_{phase}"
SampleImagesTag(phase) == <<"sample_images", phase>>

\* batches (x, y): 1..MaxBatch consecutive images of the dataset with their labels
Batches ==
    { [x |-> [k \in 1 .. w[2] |-> Dataset[w[1] + k - 1][1]],
       y |-> [k \in 1 .. w[2] |-> Dataset[w[1] + k - 1][2]]] :
      w \in { v \in (1 .. Len(Dataset)) \X (1 .. MaxBatch) : v[1] + v[2] - 1 <= Len(Dataset) } }

\* ---- pure functions -----------------------------------------------------
\* the denormalisation function handed to the constructor
Denorm(x) == [k \in DOMAIN x |-> x[k] + 2]

\* the backbone: logits of one image
Classifier(v) == [c \in Classes |-> (v * (c + 1)) % 4]

\* forward(x) = classifier(x.to(dtype)); images are already of the module's
\* dtype, so the cast keeps every value
Forward(x) == [k \in DOMAIN x |-> Classifier(x[k])]

\* e^l in thousandths, l in 0..3
ExpMilli(l) == <<1000, 2718, 7389, 20086>>[l + 1]

RECURSIVE SumOver(_, _)
SumOver(f, S) ==
    IF S = {} THEN 0
    ELSE LET c == CHOOSE c \in S : TRUE IN f[c] + SumOver(f, S \ {c})

\* nn.functional.softmax(logits, dim=1), one row, in thousandths
SoftmaxRow(row) ==
    LET e == [c \in DOMAIN row |-> ExpMilli(row[c])]
        total == SumOver(e, DOMAIN row)
    IN [c \in DOMAIN row |-> (e[c] * 1000) \div total]

Softmax(logits) == [k \in DOMAIN logits |-> SoftmaxRow(logits[k])]

\* argmax over one row: the first index holding the maximum
ArgmaxRow(row) ==
    CHOOSE c \in DOMAIN row :
        /\ \A d \in DOMAIN row : row[d] <= row[c]
        /\ \A d \in DOMAIN row : row[d] = row[c] => c <= d

Argmax(rows) == [k \in DOMAIN rows |-> ArgmaxRow(rows[k])]

\* nn.CrossEntropyLoss()(logits, y), kept as its arguments
CrossEntropyLoss(logits, y) == [fn |-> "cross_entropy", logits |-> logits, target |-> y]

\* (logits.argmax(dim=1) == y).float().mean(), as hits out of total
Accuracy(logits, y) ==
    [correct |-> Cardinality({k \in DOMAIN y : Argmax(logits)[k] = y[k]}),
     total |-> Len(y)]

\* torchvision.utils.make_grid(images), kept as its argument
MakeGrid(imgs) == [fn |-> "make_grid", tensor |-> imgs]

\* self.log(name=..., value=..., on_step=True)
LogEntry(name, value) == [name |-> name, value |-> value, on_step |-> TRUE]

\* sklearn roc_curve(y_true, y_score), kept as its arguments
RocCurve(y_true, y_score) == [fn |-> "roc_curve", y_true |-> y_true, y_score |-> y_score]

\* sklearn confusion_matrix(y_true, y_pred): counts over the sorted labels
\* occurring in either argument
ConfusionMatrix(y_true, y_pred) ==
    LET labels == {y_true[k] : k \in DOMAIN y_true} \cup {y_pred[k] : k \in DOMAIN y_pred}
    IN [a \in labels |-> [b \in labels |->
           Cardinality({k \in DOMAIN y_true : y_true[k] = a /\ y_pred[k] = b})]]

\* torch.cat([float32 tensor, int64 labels]) promotes the labels to float32,
\* which keeps integers up to 2^24 and rounds larger ones to even
ToFloat32(v) == IF v <= 2^24 THEN v ELSE (v \div 2) * 2

\* torch.cat([acc, t]) along dimension 0; the empty tensor of
\* torch.tensor([]) is the empty sequence
Cat(acc, t) == acc \o t

\* ---- state --------------------------------------------------------------
VARIABLES
    denorm_fn,            \* self.__denorm_fn: None or a callable
    optimizers,           \* self.__optimizers: None or a list
    schedulers,           \* self.__schedulers: None or a list
    example_input_array,  \* self.example_input_array: None or a tensor
    y_test_true,          \* self.__y_test_true
    y_test_pred,          \* self.__y_test_pred, one row per sample
    current_epoch,        \* self.current_epoch, owned by the trainer
    next_id,              \* identity of the next optimizer object created
    pc,                   \* position inside on_test_epoch_end, else "idle"
    i,                    \* loop variable of on_test_epoch_end
    last_call,            \* the method called last, its arguments and epoch
    raised,               \* the exception the last call raised, if any
    logged,               \* self.log entries of the last call
    images,               \* add_image entries of the last call
    figures,              \* add_figure entries of the last call
    fwd,                  \* inputs the last call passed to the classifier
    returned,             \* return value of the last call
    test_batches,         \* history: test_step batches since the last reset
    earlier_epoch         \* history: an on_test_epoch_end call has completed

vars ==
    <<denorm_fn, optimizers, schedulers, example_input_array, y_test_true,
      y_test_pred, current_epoch, next_id, pc, i, last_call, raised, logged,
      images, figures, fwd, returned, test_batches, earlier_epoch>>

setup_vars == <<optimizers, schedulers, example_input_array, next_id>>
test_vars == <<y_test_true, y_test_pred>>
hist_vars == <<test_batches, earlier_epoch>>

\* ---- __init__ -----------------------------------------------------------
Init ==
    /\ denorm_fn \in {None, DenormFn}
    /\ optimizers = None
    /\ schedulers = None
    /\ example_input_array = None
    /\ y_test_true = <<>>
    /\ y_test_pred = <<>>
    /\ current_epoch = 0
    /\ next_id = 1
    /\ pc = "idle"
    /\ i = 0
    /\ last_call = [fn |-> "__init__"]
    /\ raised = NoException
    /\ logged = <<>>
    /\ images = <<>>
    /\ figures = <<>>
    /\ fwd = <<>>
    /\ returned = None
    /\ test_batches = <<>>
    /\ earlier_epoch = FALSE

\* ---- training_setup -----------------------------------------------------
\* pipeline.core.model.utils.initialize_optimizer: a new optimizer object
InitializeOptimizer(id, optimizer_config) ==
    [id |-> id, params |-> "classifier.parameters", config |-> optimizer_config]

\* pipeline.core.model.utils.initialize_scheduler: a scheduler bound to the
\* optimizer object it is given
InitializeScheduler(optimizer, scheduler_config, num_epochs) ==
    [optimizer |-> optimizer.id, config |-> scheduler_config, num_epochs |-> num_epochs]

\* the list comprehension building self.__optimizers
NewOptimizers(id, optimizer_config) == <<InitializeOptimizer(id, optimizer_config)>>

\* mutant of NewSchedulers: the schedulers are bound to the optimizers of the
\* call before
NewSchedulersStale(optims, scheduler_config, num_epochs) ==
    [k \in DOMAIN optims |->
        InitializeScheduler([optims[k] EXCEPT !.id = @ - 1], scheduler_config, num_epochs)]

\* the list comprehension building self.__schedulers from a list of optimizers
NewSchedulers(optims, scheduler_config, num_epochs) ==
    [k \in DOMAIN optims |-> InitializeScheduler(optims[k], scheduler_config, num_epochs)]

TrainingSetup(num_epochs, optimizer_config, scheduler_config, input_sample) ==
    /\ pc = "idle"
    /\ next_id <= MaxSetups
    /\ optimizers' = List(NewOptimizers(next_id, optimizer_config))
    /\ schedulers' = List(NewSchedulers(optimizers'.items, scheduler_config, num_epochs))
    /\ next_id' = next_id + 1
    /\ example_input_array' =
           IF input_sample # None THEN input_sample ELSE example_input_array
    /\ last_call' = [fn |-> "training_setup", num_epochs |-> num_epochs,
                      optimizer_config |-> optimizer_config,
                      scheduler_config |-> scheduler_config]
    /\ raised' = NoException
    /\ logged' = <<>>
    /\ images' = <<>>
    /\ figures' = <<>>
    /\ fwd' = <<>>
    /\ returned' = None
    /\ UNCHANGED <<denorm_fn, test_vars, current_epoch, pc, i, hist_vars>>

\* ---- configure_optimizers -----------------------------------------------
\* zip(a, b): pairs up to the shorter list
Zip(a, b) ==
    LET n == IF Len(a) <= Len(b) THEN Len(a) ELSE Len(b)
    IN [k \in 1 .. n |-> <<a[k], b[k]>>]

OptimizerEntries(optims, scheds) ==
    LET z == Zip(optims, scheds)
    IN [k \in DOMAIN z |->
           [optimizer |-> z[k][1],
            lr_scheduler |-> [scheduler |-> z[k][2], interval |-> "step", frequency |-> 1]]]

\* zip(None, None) raises TypeError before training_setup
ConfigureOptimizers ==
    /\ pc = "idle"
    /\ IF optimizers = None \/ schedulers = None
       THEN /\ raised' = "TypeError"
            /\ returned' = None
       ELSE /\ raised' = NoException
            /\ returned' = List(OptimizerEntries(optimizers.items, schedulers.items))
    /\ last_call' = [fn |-> "configure_optimizers"]
    /\ logged' = <<>>
    /\ images' = <<>>
    /\ figures' = <<>>
    /\ fwd' = <<>>
    /\ UNCHANGED <<denorm_fn, setup_vars, test_vars, current_epoch, pc, i, hist_vars>>

\* ---- __common_step ------------------------------------------------------
\* mutant of SampleImages: the grid is logged for every batch
SampleImagesEveryBatch(x, batch_idx, phase) ==
    LET x_denorm == IF denorm_fn # None THEN Denorm(x) ELSE x
    IN <<[tag |-> SampleImagesTag(phase),
          img_tensor |-> MakeGrid(x_denorm),
          global_step |-> current_epoch]>>

\* lines 124-133: the sample-image grid of the first batch of an epoch
SampleImages(x, batch_idx, phase) ==
    IF batch_idx = 0
    THEN LET x_denorm == IF denorm_fn # None THEN Denorm(x) ELSE x
         IN <<[tag |-> SampleImagesTag(phase),
               img_tensor |-> MakeGrid(x_denorm),
               global_step |-> current_epoch]>>
    ELSE <<>>

\* mutant of StepMetrics: the accuracy is logged under the training phase
StepMetricsTrainingTag(x, y, phase) ==
    LET logits == Forward(x)
    IN <<LogEntry(PhaseCall(phase, LOSS), CrossEntropyLoss(logits, y)),
         LogEntry(PhaseCall(TRAINING, ACCURACY), Accuracy(logits, y))>>

\* lines 135-140 and 204-208: loss and accuracy of forward(x), logged under phase
StepMetrics(x, y, phase) ==
    LET logits == Forward(x)
    IN <<LogEntry(PhaseCall(phase, LOSS), CrossEntropyLoss(logits, y)),
         LogEntry(PhaseCall(phase, ACCURACY), Accuracy(logits, y))>>

CommonStep(fn, batch, batch_idx, phase) ==
    /\ pc = "idle"
    /\ images' = SampleImages(batch.x, batch_idx, phase)
    /\ fwd' = <<batch.x>>
    /\ logged' = StepMetrics(batch.x, batch.y, phase)
    /\ returned' = CrossEntropyLoss(Forward(batch.x), batch.y)
    /\ last_call' = [fn |-> fn, batch |-> batch, batch_idx |-> batch_idx,
                      epoch |-> current_epoch]
    /\ raised' = NoException
    /\ figures' = <<>>
    /\ UNCHANGED <<denorm_fn, setup_vars, test_vars, current_epoch, pc, i, hist_vars>>

TrainingStep(batch, batch_idx) == CommonStep("training_step", batch, batch_idx, TRAINING)

ValidationStep(batch, batch_idx) == CommonStep("validation_step", batch, batch_idx, VALIDATION)

\* ---- test_step ----------------------------------------------------------
\* mutant of TestAccumulate: the new rows are put in front of the old ones
TestAccumulatePrepend(acc_true, acc_pred, logits, y) ==
    [y_true |-> Cat([k \in DOMAIN y |-> ToFloat32(y[k])], acc_true),
     y_pred |-> Cat(Softmax(logits), acc_pred)]

\* lines 210-212: the labels and softmax rows appended to the accumulators
TestAccumulate(acc_true, acc_pred, logits, y) ==
    [y_true |-> Cat(acc_true, [k \in DOMAIN y |-> ToFloat32(y[k])]),
     y_pred |-> Cat(acc_pred, Softmax(logits))]

TestStep(batch, batch_idx) ==
    /\ pc = "idle"
    /\ Len(y_test_true) + Len(batch.y) <= MaxTestSamples
    /\ fwd' = <<batch.x>>
    /\ logged' = StepMetrics(batch.x, batch.y, TESTING)
    /\ LET acc == TestAccumulate(y_test_true, y_test_pred, Forward(batch.x), batch.y)
       IN /\ y_test_true' = acc.y_true
          /\ y_test_pred' = acc.y_pred
    /\ returned' = CrossEntropyLoss(Forward(batch.x), batch.y)
    /\ last_call' = [fn |-> "test_step", batch |-> batch]
    /\ raised' = NoException
    /\ images' = <<>>
    /\ figures' = <<>>
    /\ test_batches' = Append(test_batches, batch)
    /\ UNCHANGED <<denorm_fn, setup_vars, current_epoch, pc, i, earlier_epoch>>

\* ---- on_test_epoch_end --------------------------------------------------
\* self.__y_test_pred.shape[1]; the 1-d empty tensor has no dimension 1
NumColumns(pred) == Cardinality(DOMAIN pred[1])

\* mutant of RocFigure: every curve is drawn from the first score column
RocFigureFirstColumn(c) ==
    [tag |-> <<"ROC Curve Class", c, Backbone>>,
     figure |-> RocCurve([k \in DOMAIN y_test_true |-> y_test_true[k] = c],
                         [k \in DOMAIN y_test_pred |-> y_test_pred[k][0]]),
     global_step |-> current_epoch]

\* lines 219-223 and 232-254: the ROC figure of class c
RocFigure(c) ==
    [tag |-> <<"ROC Curve Class", c, Backbone>>,
     figure |-> RocCurve([k \in DOMAIN y_test_true |-> y_test_true[k] = c],
                         [k \in DOMAIN y_test_pred |-> y_test_pred[k][c]]),
     global_step |-> current_epoch]

\* lines 225-227 and 256-295: the confusion-matrix figure
ConfusionFigure ==
    [tag |-> <<"Confusion Matrix">>,
     figure |-> ConfusionMatrix(y_test_true, Argmax(y_test_pred)),
     global_step |-> current_epoch]

\* line 218 on the empty accumulator: IndexError, nothing plotted or reset
OnTestEpochEndRaise ==
    /\ pc = "idle"
    /\ y_test_pred = <<>>
    /\ last_call' = [fn |-> "on_test_epoch_end"]
    /\ raised' = "IndexError"
    /\ logged' = <<>>
    /\ images' = <<>>
    /\ figures' = <<>>
    /\ fwd' = <<>>
    /\ returned' = None
    /\ UNCHANGED <<denorm_fn, setup_vars, test_vars, current_epoch, pc, i, hist_vars>>

\* line 218: the call enters the loop over the classes
OnTestEpochEndBegin ==
    /\ pc = "idle"
    /\ y_test_pred # <<>>
    /\ pc' = "roc_loop"
    /\ i' = 0
    /\ last_call' = [fn |-> "on_test_epoch_end"]
    /\ raised' = NoException
    /\ logged' = <<>>
    /\ images' = <<>>
    /\ figures' = <<>>
    /\ fwd' = <<>>
    /\ returned' = None
    /\ UNCHANGED <<denorm_fn, setup_vars, test_vars, current_epoch, hist_vars>>

\* lines 218-223: one iteration of the loop
OnTestEpochEndRoc ==
    /\ pc = "roc_loop"
    /\ i < NumColumns(y_test_pred)
    /\ figures' = Append(figures, RocFigure(i))
    /\ i' = i + 1
    /\ UNCHANGED <<denorm_fn, setup_vars, test_vars, current_epoch, pc, last_call,
                   raised, logged, images, fwd, returned, hist_vars>>

\* lines 225-227: the loop is over, the confusion matrix is plotted
OnTestEpochEndConfusion ==
    /\ pc = "roc_loop"
    /\ i >= NumColumns(y_test_pred)
    /\ figures' = Append(figures, ConfusionFigure)
    /\ pc' = "reset"
    /\ UNCHANGED <<denorm_fn, setup_vars, test_vars, current_epoch, i, last_call,
                   raised, logged, images, fwd, returned, hist_vars>>

\* mutant of OnTestEpochEndReset: the call returns without clearing
OnTestEpochEndNoReset ==
    /\ pc = "reset"
    /\ pc' = "idle"
    /\ test_batches' = <<>>
    /\ earlier_epoch' = TRUE
    /\ UNCHANGED <<denorm_fn, setup_vars, test_vars, current_epoch, i, last_call,
                   raised, logged, images, figures, fwd, returned>>

\* lines 229-230: both accumulators become torch.tensor([]), the call returns
OnTestEpochEndReset ==
    /\ pc = "reset"
    /\ y_test_true' = <<>>
    /\ y_test_pred' = <<>>
    /\ pc' = "idle"
    /\ test_batches' = <<>>
    /\ earlier_epoch' = TRUE
    /\ UNCHANGED <<denorm_fn, setup_vars, current_epoch, i, last_call, raised,
                   logged, images, figures, fwd, returned>>

\* ---- the trainer --------------------------------------------------------
\* the trainer moves self.current_epoch on between calls
AdvanceEpoch ==
    /\ pc = "idle"
    /\ current_epoch < MaxEpoch
    /\ current_epoch' = current_epoch + 1
    /\ UNCHANGED <<denorm_fn, setup_vars, test_vars, pc, i, last_call, raised,
                   logged, images, figures, fwd, returned, hist_vars>>

\* ---- inputs -------------------------------------------------------------
NumEpochsValues == {1, 2}
OptimizerConfigs == {"sgd"}
SchedulerConfigs == {"cosine"}
InputSamples == {None, Tensor(<<0>>)}
BatchIdxValues == {0, 1}

Next ==
    \/ \E n \in NumEpochsValues, oc \in OptimizerConfigs, sc \in SchedulerConfigs,
          s \in InputSamples : TrainingSetup(n, oc, sc, s)
    \/ ConfigureOptimizers
    \/ \E b \in Batches, idx \in BatchIdxValues : TrainingStep(b, idx)
    \/ \E b \in Batches, idx \in BatchIdxValues : ValidationStep(b, idx)
    \/ \E b \in Batches, idx \in BatchIdxValues : TestStep(b, idx)
    \/ OnTestEpochEndRaise
    \/ OnTestEpochEndBegin
    \/ OnTestEpochEndRoc
    \/ OnTestEpochEndConfusion
    \/ OnTestEpochEndReset
    \/ AdvanceEpoch

Spec == Init /\ [][Next]_vars

\* ---- properties ----------------------------------------------------------
StepFns == {"training_step", "validation_step", "test_step"}

\* the phase each step method stands for
PhaseOf(fn) ==
    CASE fn = "training_step" -> TRAINING
      [] fn = "validation_step" -> VALIDATION
      [] fn = "test_step" -> TESTING

\* the call in last_call has returned without an exception
Completed(fn) == last_call.fn = fn /\ pc = "idle" /\ raised = NoException

\* C1: a training_step, validation_step or test_step call logs exactly two
\* metrics, the loss and then the accuracy, both named by the phase of the
\* step that was called; no other call logs a metric.
C1_StepMetricsTaggedWithPhase ==
    IF last_call.fn \in StepFns
    THEN /\ Len(logged) = 2
         /\ logged[1].name.criterion = LOSS
         /\ logged[2].name.criterion = ACCURACY
         /\ \A k \in 1 .. 2 : logged[k].name.phase = PhaseOf(last_call.fn)
    ELSE logged = <<>>

C1_Witness ==
    /\ last_call.fn = "test_step"
    /\ Len(logged) = 2
    /\ logged[2].name.phase = TESTING
    /\ logged[2].value.correct < logged[2].value.total

\* C2: once training_setup has been called, there is one optimizer and one
\* scheduler, the scheduler at each index is bound to the optimizer at that
\* index, both come from the latest training_setup call, and
\* configure_optimizers returns one entry per optimizer pairing it with that
\* scheduler, interval "step", frequency 1.
C2_OptimizerSchedulerPairs ==
    optimizers # None =>
        /\ schedulers # None
        /\ Len(optimizers.items) = 1
        /\ Len(schedulers.items) = 1
        /\ \A k \in 1 .. Len(optimizers.items) :
               /\ schedulers.items[k].optimizer = optimizers.items[k].id
               /\ optimizers.items[k].id = next_id - 1
        /\ last_call.fn = "training_setup" =>
               /\ optimizers.items[1].config = last_call.optimizer_config
               /\ schedulers.items[1].config = last_call.scheduler_config
               /\ schedulers.items[1].num_epochs = last_call.num_epochs
        /\ last_call.fn = "configure_optimizers" =>
               /\ raised = NoException
               /\ Len(returned.items) = Len(optimizers.items)
               /\ \A k \in 1 .. Len(returned.items) :
                      /\ returned.items[k].optimizer = optimizers.items[k]
                      /\ returned.items[k].lr_scheduler.scheduler = schedulers.items[k]
                      /\ returned.items[k].lr_scheduler.scheduler.optimizer =
                             returned.items[k].optimizer.id
                      /\ returned.items[k].lr_scheduler.interval = "step"
                      /\ returned.items[k].lr_scheduler.frequency = 1

C2_Witness ==
    /\ last_call.fn = "configure_optimizers"
    /\ raised = NoException
    /\ next_id = 3
    /\ Len(returned.items) = 1
    /\ returned.items[1].optimizer.id = 2

\* the labels of a sequence of batches, in call order
RECURSIVE FlatLabels(_)
FlatLabels(bs) ==
    IF bs = <<>> THEN <<>> ELSE FlatLabels(SubSeq(bs, 1, Len(bs) - 1)) \o bs[Len(bs)].y

\* the softmax rows of a sequence of batches, in call order
RECURSIVE FlatRows(_)
FlatRows(bs) ==
    IF bs = <<>> THEN <<>>
    ELSE FlatRows(SubSeq(bs, 1, Len(bs) - 1)) \o Softmax(Forward(bs[Len(bs)].x))

\* C3: the two test accumulators always hold the same number of entries, and
\* they are the labels and the softmax rows, in call order, of exactly the
\* test_step batches since construction or the last on_test_epoch_end; no
\* other call changes them.
C3_AccumulatorsAreTestBatches ==
    /\ Len(y_test_true) = Len(y_test_pred)
    /\ y_test_true = FlatLabels(test_batches)
    /\ y_test_pred = FlatRows(test_batches)

C3_Witness ==
    /\ Len(test_batches) = 2
    /\ Len(test_batches[1].y) = 1
    /\ Len(test_batches[2].y) = 2
    /\ y_test_true = <<0, 1, 0>>
    /\ last_call.fn = "training_step"
    /\ optimizers # None
    /\ earlier_epoch

\* the ROC figure of class c drawn from labels yt and score rows yp
ExpectedRoc(c, yt, yp) ==
    [tag |-> <<"ROC Curve Class", c, Backbone>>,
     figure |-> RocCurve([k \in DOMAIN yt |-> yt[k] = c], [k \in DOMAIN yp |-> yp[k][c]]),
     global_step |-> current_epoch]

\* the confusion-matrix figure drawn from labels yt and score rows yp
ExpectedConfusion(yt, yp) ==
    [tag |-> <<"Confusion Matrix">>,
     figure |-> ConfusionMatrix(yt, Argmax(yp)),
     global_step |-> current_epoch]

\* the figures of one on_test_epoch_end call over labels yt and rows yp
ExpectedFigures(yt, yp) ==
    [k \in 1 .. (NumClasses + 1) |->
        IF k <= NumClasses THEN ExpectedRoc(k - 1, yt, yp) ELSE ExpectedConfusion(yt, yp)]

IsPrefix(s, t) == Len(s) <= Len(t) /\ \A k \in 1 .. Len(s) : s[k] = t[k]

\* C4: a completed on_test_epoch_end leaves both accumulators empty, and the
\* figures it draws come from the test_step batches since the last
\* on_test_epoch_end only, also when an earlier test epoch had samples.
C4_FiguresOfThisEpochOnly ==
    /\ Completed("on_test_epoch_end") => y_test_true = <<>> /\ y_test_pred = <<>>
    /\ pc # "idle" =>
           IsPrefix(figures,
                    ExpectedFigures(FlatLabels(test_batches), FlatRows(test_batches)))

C4_Witness ==
    /\ earlier_epoch
    /\ pc = "reset"
    /\ Len(figures) = NumClasses + 1
    /\ Len(test_batches) = 1

\* C5: on_test_epoch_end over accumulators with C columns draws the ROC
\* figures of the classes 0..C-1 in ascending order, each from the
\* accumulated labels and that class's score column, then one confusion
\* matrix, and clears the accumulators only after all of them.
C5_RocPerClassThenConfusion ==
    /\ pc = "roc_loop" =>
           /\ i <= NumClasses
           /\ Len(figures) = i
    /\ pc = "reset" => Len(figures) = NumClasses + 1
    /\ pc # "idle" =>
           /\ y_test_pred # <<>>
           /\ NumColumns(y_test_pred) = NumClasses
           /\ IsPrefix(figures, ExpectedFigures(y_test_true, y_test_pred))
    /\ Completed("on_test_epoch_end") =>
           /\ Len(figures) = NumClasses + 1
           /\ \A k \in 1 .. NumClasses : figures[k].tag = <<"ROC Curve Class", k - 1, Backbone>>
           /\ figures[NumClasses + 1].tag = <<"Confusion Matrix">>
           /\ y_test_true = <<>>
           /\ y_test_pred = <<>>

C5_Witness ==
    /\ Completed("on_test_epoch_end")
    /\ Len(figures) = NumClasses + 1
    /\ figures[2].figure.y_true = <<FALSE, TRUE, FALSE>>
    /\ y_test_pred = <<>>

\* C6: a training_step or validation_step call logs a sample-image grid
\* exactly when batch_idx is 0, under the phase of the step and the epoch of
\* the call, built from denorm_fn(x) when a denormalisation function was
\* given and from x otherwise; the classifier and the loss get x itself.
C6_SampleImagesOnFirstBatch ==
    last_call.fn \in {"training_step", "validation_step"} =>
        /\ Len(images) = (IF last_call.batch_idx = 0 THEN 1 ELSE 0)
        /\ \A k \in 1 .. Len(images) :
               /\ images[k].tag = <<"sample_images", PhaseOf(last_call.fn)>>
               /\ images[k].global_step = last_call.epoch
               /\ images[k].img_tensor.tensor =
                      (IF denorm_fn = DenormFn THEN Denorm(last_call.batch.x)
                       ELSE last_call.batch.x)
        /\ fwd = <<last_call.batch.x>>
        /\ Denorm(last_call.batch.x) # last_call.batch.x
        /\ returned = CrossEntropyLoss(Forward(last_call.batch.x), last_call.batch.y)
        /\ logged[1].value = returned

C6_Witness ==
    /\ last_call.fn = "validation_step"
    /\ last_call.batch_idx = 0
    /\ last_call.epoch = 1
    /\ denorm_fn = DenormFn
    /\ Len(images) = 1
    /\ Len(last_call.batch.x) = 2

====
